---- MODULE Spec2Model ----
(***************************************************************************)
(* A model of playsoundrs (src/src/main.rs): the AudioState playback       *)
(* session, the tray menu event loop that drives it under the mutex, the   *)
(* sources the session appends to its sink with the audio thread that      *)
(* takes their samples, and the PinkNoise sample generator.                *)
(*                                                                         *)
(* Encodings.                                                              *)
(*  - An Option is a sequence: None is <<>> and Some(x) is <<x>>.          *)
(*  - A volume is an f32 written in hundredths (25 is 0.25, 100 is 1.0),   *)
(*    or one of the codes NaN, NegInf, PosInf of the non-finite values.    *)
(*  - A pink-noise value is an f32 written in units of 2^-24 (One is 1.0); *)
(*    F32Round rounds an exact sum to the nearest f32, ties to even, so    *)
(*    the arithmetic of PinkNoise is the arithmetic of the f32 fields.     *)
(*  - The u32 tick counter is the pair of its 16-bit halves [hi, lo].      *)
(*  - The source appended to a sink is `generator`: its variant and the    *)
(*    fields of that variant (the fields of a PinkNoise are the variables  *)
(*    rows, running_sum and counter).                                      *)
(***************************************************************************)
EXTENDS Integers, Sequences, FiniteSets

VARIABLES
    audio_state,   \* the AudioState behind the Arc<Mutex<..>>
    mixer,         \* ids of the sinks connected to the output stream's mixer
    last,          \* history: the last AudioState call, its pre-state and result
    opens,         \* history: calls of open_default_stream the last call made
    menu_channel,  \* MenuEvent::receiver(): the queue of clicked item ids
    enabled,       \* menu item -> enabled
    checked,       \* check menu item -> checked
    icon,          \* the tray icon shown
    running,       \* the main loop has not met Quit
    guard,         \* the holder of the Mutex around the AudioState, None when free
    event,         \* the event the main loop is handling step by step, and its position
    rows,          \* PinkNoise.rows
    running_sum,   \* PinkNoise.running_sum
    counter,       \* PinkNoise.counter
    sample,        \* the sample the last PinkNoise::next returned
    idx,           \* history: the row index the last PinkNoise::next used
    ticks,         \* history: calls of PinkNoise::next since the observation began
    updates,       \* history: row -> number of times the row was redrawn
    panicked,      \* an index out of bounds was used (the thread panicked)
    generator,     \* the source appended to the sink, None without a sink
    out,           \* the last sample the source handed to the sink, before its volume
    produced,      \* history: calls of next on the source of the current sink
    previous       \* history: calls of next on the source of the sink before it

audio_vars == <<audio_state, mixer, last, opens>>
ui_vars == <<menu_channel, enabled, checked, icon, running>>
pink_vars == <<rows, running_sum, counter, sample, idx, ticks, updates, panicked>>
stream_vars == <<generator, out, produced, previous>>
loop_vars == <<guard, event>>
vars == <<audio_state, mixer, last, opens, menu_channel, enabled, checked, icon, running,
          rows, running_sum, counter, sample, idx, ticks, updates, panicked,
          generator, out, produced, previous, guard, event>>

None == <<>>
Some(x) == <<x>>

(***************************************************************************)
(* Bounds of the model.                                                    *)
(***************************************************************************)
MaxQueue == 2        \* menu events waiting in the channel
MaxTicks == 16       \* calls of PinkNoise::next in the value-level run
RunTicks == 65536    \* calls of PinkNoise::next in the long schedule run
NewSplit == 5        \* PinkNoise::new draws one value below this row, one from it on
WrapLead == 4        \* ticks before a counter boundary at which the wrap run starts
MaxSamples == 2      \* samples the audio thread takes from one sink

(***************************************************************************)
(* f32 volumes.                                                            *)
(***************************************************************************)
NaN == 999999
NegInf == -100000
PosInf == 100000

\* f32 `<`: false whenever an operand is NaN.
F32Lt(a, b) == IF a = NaN \/ b = NaN THEN FALSE ELSE a < b

\* f32::clamp: `if x < min { x = min } if x > max { x = max } x`.
F32Clamp(x, min, max) ==
    LET lo == IF F32Lt(x, min) THEN min ELSE x
    IN IF F32Lt(max, lo) THEN max ELSE lo

\* The volumes handed to set_volume: the four menu values and out-of-range ones.
MenuVolumes == {25, 50, 75, 100}
VolumeInputs == MenuVolumes \cup {NaN, NegInf, -100, 0, 200, PosInf}

SoundTypes == {"SineWave", "WhiteNoise", "PinkNoise", "BrownNoise"}

(***************************************************************************)
(* AudioState.                                                             *)
(***************************************************************************)
AudioState_new ==
    [sink |-> None, stream |-> None, is_playing |-> FALSE,
     sound_type |-> "SineWave", volume |-> 50]

\* initialize_audio: open the default stream unless one is held; `open_ok` is
\* whether OutputStreamBuilder::open_default_stream succeeds.
\* `opens` counts the calls of open_default_stream made.
AlwaysOpen(s) == TRUE
StreamMissing(s) == s.stream = None
initialize_audio(s, open_ok) ==
    IF StreamMissing(s)
    THEN IF open_ok
         THEN [ok |-> TRUE, s |-> [s EXCEPT !.stream = Some("OutputStream")], opens |-> 1]
         ELSE [ok |-> FALSE, s |-> s, opens |-> 1]
    ELSE [ok |-> TRUE, s |-> s, opens |-> 0]

set_sound_type_live(s, sound_type) ==
    IF s.sink # None
    THEN [s EXCEPT !.sound_type = sound_type,
                   !.sink = Some([s.sink[1] EXCEPT !.source.kind = sound_type])]
    ELSE [s EXCEPT !.sound_type = sound_type]
set_sound_type(s, sound_type) == [s EXCEPT !.sound_type = sound_type]

set_volume(s, volume) ==
    LET v == F32Clamp(volume, 0, 100)
    IN IF s.sink # None
       THEN [s EXCEPT !.volume = v, !.sink = Some([s.sink[1] EXCEPT !.volume = v])]
       ELSE [s EXCEPT !.volume = v]

\* The id of a sink created while the sinks of `m` are alive.
NewSinkId(m) == CHOOSE i \in 1..(Cardinality(m) + 1) : i \notin m /\ \A j \in 1..(i - 1) : j \in m

\* `if self.is_playing { return Ok(()) }`
AlwaysStart(s) == FALSE
AlreadyPlaying(s) == s.is_playing

\* The source appended to the sink for a sound type (WhiteNoise is amplified by 0.3).
SourceUnamplified(sound_type) == [kind |-> sound_type, amplify |-> 100]
SourceFor(sound_type) ==
    [kind |-> sound_type, amplify |-> IF sound_type = "WhiteNoise" THEN 30 ELSE 100]

\* The sink play() builds: connected, its volume set, the source appended, playing.
SinkWithVolume(id, s) ==
    [id |-> id, volume |-> s.volume, source |-> SourceFor(s.sound_type)]
SinkAtFullVolume(id, s) ==
    [id |-> id, volume |-> 100, source |-> SourceFor(s.sound_type)]
NewSink(id, s) == SinkWithVolume(id, s)

\* play: [ok, s, created] where created is the id of the sink made, or None.
play(s, open_ok, m) ==
    LET init == initialize_audio(s, open_ok)
        t == init.s
    IN IF ~init.ok THEN [ok |-> FALSE, s |-> t, created |-> None, opens |-> init.opens]
       ELSE IF AlreadyPlaying(t)
            THEN [ok |-> TRUE, s |-> t, created |-> None, opens |-> init.opens]
       ELSE IF t.stream # None
            THEN LET id == NewSinkId(m)
                 IN [ok |-> TRUE,
                     s |-> [t EXCEPT !.sink = Some(NewSink(id, t)), !.is_playing = TRUE],
                     created |-> id, opens |-> init.opens]
            ELSE [ok |-> TRUE, s |-> t, created |-> None, opens |-> init.opens]

\* stop: `if let Some(sink) = self.sink.take() { sink.stop(); self.is_playing = false }`
StopKeepsFlag(s) == IF s.sink # None THEN [s EXCEPT !.sink = None] ELSE s
StopKeepsSink(s) == IF s.sink # None THEN [s EXCEPT !.is_playing = FALSE] ELSE s
stop(s) ==
    IF s.sink # None THEN [s EXCEPT !.sink = None, !.is_playing = FALSE] ELSE s

\* The mixer after `self.sink` went from `old` to `new`: a sink that is stopped or
\* dropped leaves the mixer, a sink that is connected joins it.
MixerAfter(m, old, new) ==
    LET gone == IF old # None /\ (new = None \/ new[1].id # old[1].id) THEN {old[1].id} ELSE {}
        come == IF new # None THEN {new[1].id} ELSE {}
    IN (m \ gone) \cup come

(***************************************************************************)
(* f32 arithmetic on values written in units of 2^-24.                     *)
(***************************************************************************)
One == 2^24

Abs(n) == IF n < 0 THEN -n ELSE n
Sign(n) == IF n < 0 THEN -1 ELSE 1

\* The spacing of the f32 values around magnitude a (24 significant bits).
RECURSIVE F32Ulp(_)
F32Ulp(a) == IF a < One THEN 1 ELSE 2 * F32Ulp(a \div 2)

\* The f32 nearest to the exact value n, ties to the even significand.
F32Round(n) ==
    LET a == Abs(n)
        q == F32Ulp(a)
        lo == (a \div q) * q
        r == a - lo
        up == 2 * r > q \/ (2 * r = q /\ (lo \div q) % 2 = 1)
    IN Sign(n) * (IF up THEN lo + q ELSE lo)

\* The least s with a * 2^s >= 17 * 2^23, for a > 0: the quotient a * 2^s / 17 then
\* has 24 significant bits.
RECURSIVE NormShift(_)
NormShift(a) == IF a >= 17 * (One \div 2) THEN 0 ELSE 1 + NormShift(2 * a)

\* n / 17.0 in f32, as [mant, shift]: the value mant * 2^-(24 + shift).
F32Div17(n) ==
    LET a == Abs(n)
    IN IF a = 0 THEN [mant |-> 0, shift |-> 0]
       ELSE IF a >= 17 * One
       THEN LET q == a \div 34
                r == a % 34
                up == 2 * r > 34 \/ (2 * r = 34 /\ q % 2 = 1)
            IN [mant |-> Sign(n) * 2 * (IF up THEN q + 1 ELSE q), shift |-> 0]
       ELSE LET s == NormShift(a)
                num == a * 2^s
                q == num \div 17
                up == 2 * (num % 17) > 17
            IN [mant |-> Sign(n) * (IF up THEN q + 1 ELSE q), shift |-> s]

\* A sample lies in [-1.0, 1.0].
InUnitRange(s) == s.shift > 0 \/ (-One <= s.mant /\ s.mant <= One)

(***************************************************************************)
(* PinkNoise.                                                              *)
(***************************************************************************)
PINK_NOISE_ROWS == 16
Rows == 0..(PINK_NOISE_ROWS - 1)

\* The values rng.gen_range(-1.0..=1.0) returns in the model: -1.0, 7 * 2^-24, 1.0.
Draws == {-One, 7, One}

\* The draws of PinkNoise::new in the model: one value for the rows below NewSplit,
\* one for the others.
NewDraws == {[i \in Rows |-> IF i < NewSplit THEN a ELSE b] : a, b \in Draws}

\* `running_sum += *row` over the first n rows, from 0.0.
RECURSIVE SumF32(_, _)
SumF32(r, n) == IF n = 0 THEN 0 ELSE F32Round(SumF32(r, n - 1) + r[n - 1])

\* The exact sum of the first n rows.
RECURSIVE SumExact(_, _)
SumExact(r, n) == IF n = 0 THEN 0 ELSE SumExact(r, n - 1) + r[n - 1]

Half == 2^16

\* u32::wrapping_add(1) on the halves of the counter.
wrapping_add_1(c) ==
    IF c.lo + 1 < Half THEN [hi |-> c.hi, lo |-> c.lo + 1]
    ELSE [hi |-> (c.hi + 1) % Half, lo |-> 0]

RECURSIVE Tz16(_)
Tz16(n) == IF n % 2 = 1 THEN 0 ELSE 1 + Tz16(n \div 2)

RECURSIVE To16(_)
To16(n) == IF n % 2 = 0 THEN 0 ELSE 1 + To16(n \div 2)

\* u32::trailing_zeros (32 for zero).
stale_trailing_zeros(c) ==
    IF counter.lo # 0 THEN Tz16(counter.lo)
    ELSE IF counter.hi # 0 THEN 16 + Tz16(counter.hi) ELSE 32
trailing_ones(c) == IF c.lo # Half - 1 THEN To16(c.lo) ELSE 16 + To16(c.hi)
trailing_zeros(c) ==
    IF c.lo # 0 THEN Tz16(c.lo) ELSE IF c.hi # 0 THEN 16 + Tz16(c.hi) ELSE 32

\* `if zeros < PINK_NOISE_ROWS`
RowGuardOffByOne(zeros) == zeros <= PINK_NOISE_ROWS
RowGuard(zeros) == zeros < PINK_NOISE_ROWS

\* PinkNoise::new with the 16 draws `d`.
PinkNew(d) ==
    /\ rows = d
    /\ running_sum = SumF32(d, PINK_NOISE_ROWS)
    /\ counter = [hi |-> 0, lo |-> 0]

\* Nothing was sampled yet.
Unsampled ==
    /\ sample = [mant |-> 0, shift |-> 0]
    /\ idx = None
    /\ ticks = 0
    /\ updates = [i \in Rows |-> 0]
    /\ panicked = FALSE

\* PinkNoise::next, drawing `d` for the row and `w` for the white sample.
pink_next(d, w) ==
    LET c == wrapping_add_1(counter)
        zeros == trailing_zeros(c)
    IN /\ ~panicked
       /\ counter' = c
       /\ ticks' = ticks + 1
       /\ IF RowGuard(zeros) /\ zeros \notin Rows
          THEN \* rows[zeros] is out of bounds: the thread panics
               /\ panicked' = TRUE
               /\ idx' = Some(zeros)
               /\ UNCHANGED <<rows, running_sum, sample, updates>>
          ELSE /\ panicked' = FALSE
               /\ IF RowGuard(zeros)
                  THEN /\ rows' = [rows EXCEPT ![zeros] = d]
                       /\ running_sum' =
                              F32Round(F32Round(running_sum - rows[zeros]) + d)
                       /\ idx' = Some(zeros)
                       /\ updates' = [updates EXCEPT ![zeros] = @ + 1]
                  ELSE /\ UNCHANGED <<rows, running_sum, updates>>
                       /\ idx' = None
               /\ sample' = F32Div17(F32Round(running_sum' + w))

\* No generator is observed.
NoGenerator ==
    /\ PinkNew([i \in Rows |-> 0])
    /\ Unsampled

(***************************************************************************)
(* The sources play() appends to the sink, and the samples they produce.   *)
(***************************************************************************)
\* SineWave::new, WhiteNoise::new, PinkNoise::new, BrownNoise::new: the fields of a
\* new generator (num_sample of a SineWave; integrator and output of a BrownNoise;
\* the fields of a PinkNoise are set by PinkNewNext).
GeneratorResumed(kind) ==
    [kind |-> kind, num_sample |-> produced, integrator |-> 0, output |-> 0]
GeneratorNew(kind) ==
    [kind |-> kind, num_sample |-> 0, integrator |-> 0, output |-> 0]

\* PinkNoise::new with the 16 draws `d`, as the step that constructs it.
PinkNewNext(d) ==
    /\ rows' = d
    /\ running_sum' = SumF32(d, PINK_NOISE_ROWS)
    /\ counter' = [hi |-> 0, lo |-> 0]

UnsampledNext ==
    /\ sample' = [mant |-> 0, shift |-> 0]
    /\ idx' = None
    /\ ticks' = 0
    /\ updates' = [i \in Rows |-> 0]
    /\ panicked' = FALSE

\* `self.sink` went from `old` to `new`: a sink was connected, a sink was dropped.
SinkCreated(old, new) == new # None /\ (old = None \/ old[1].id # new[1].id)
SinkDropped(old, new) == old # None /\ (new = None \/ new[1].id # old[1].id)

\* The source of the sink after `self.sink` went from `old` to `new`: play() builds
\* the generator of the new sink's variant and appends it; a stopped sink drops its
\* source; otherwise the source is not touched.
SourceAfter(old, new) ==
    IF SinkCreated(old, new)
    THEN /\ generator' = Some(GeneratorNew(new[1].source.kind))
         /\ IF new[1].source.kind = "PinkNoise"
            THEN \E d \in NewDraws : PinkNewNext(d)
            ELSE PinkNewNext([i \in Rows |-> 0])
         /\ UnsampledNext
         /\ out' = None
         /\ produced' = 0
         /\ previous' = produced
    ELSE IF SinkDropped(old, new)
    THEN /\ generator' = None
         /\ PinkNewNext([i \in Rows |-> 0])
         /\ UnsampledNext
         /\ out' = None
         /\ UNCHANGED <<produced, previous>>
    ELSE UNCHANGED <<pink_vars, stream_vars>>

\* 0.3_f32 is WhiteBaseGain * 2^-25.
WhiteBaseGain == 10066330

\* The odd part of a > 0 and the exponent of its power of two.
RECURSIVE OddPart(_)
OddPart(a) == IF a % 2 = 1 THEN a ELSE OddPart(a \div 2)
RECURSIVE TwoExp(_)
TwoExp(a) == IF a % 2 = 1 THEN 0 ELSE 1 + TwoExp(a \div 2)

\* The number of bits of p above 24.
RECURSIVE ExtraBits(_)
ExtraBits(p) == IF p < One THEN 0 ELSE 1 + ExtraBits(p \div 2)

\* n * 0.3 in f32 for n in units of 2^-24, |n| <= 1.0, as [mant, shift]: the exact
\* product OddPart * WhiteBaseGain * 2^(TwoExp - 49) rounded to 24 significant bits.
F32MulBaseGain(n) ==
    LET a == Abs(n)
    IN IF a = 0 THEN [mant |-> 0, shift |-> 0]
       ELSE LET p == OddPart(a) * WhiteBaseGain
                k == ExtraBits(p)
                q == p \div 2^k
                r == p % 2^k
                up == 2 * r > 2^k \/ (2 * r = 2^k /\ q % 2 = 1)
                m == IF up THEN q + 1 ELSE q
            IN IF m = One
               THEN [mant |-> Sign(n) * (One \div 2), shift |-> 24 - k - TwoExp(a)]
               ELSE [mant |-> Sign(n) * m, shift |-> 25 - k - TwoExp(a)]

\* Source::amplify(factor) on a sample of `n` units: `value * factor`; a source
\* without amplify hands the sample on.
Amplify(factor, n) ==
    IF factor = 100 THEN [mant |-> n, shift |-> 0] ELSE F32MulBaseGain(n)

\* The output stream can take a sample from a source of variant `kind`: the sink
\* is connected and plays that source.
CanPull(kind) ==
    /\ audio_state.sink # None
    /\ generator # None
    /\ generator[1].kind = kind
    /\ produced < MaxSamples

\* The audio thread takes the next sample of the sink's source.
Pull(kind) ==
    /\ CanPull(kind)
    /\ produced' = produced + 1
    /\ UNCHANGED <<audio_vars, ui_vars, previous, loop_vars>>

\* SineWave::next: the generator moves on by one sample.
SampleSine ==
    /\ Pull("SineWave")
    /\ generator' = Some([generator[1] EXCEPT !.num_sample = @ + 1])
    /\ out' = None
    /\ UNCHANGED pink_vars

\* WhiteNoise::next through amplify(0.3).
SampleWhite ==
    /\ Pull("WhiteNoise")
    /\ \E w \in Draws :
          out' = Some([raw |-> [mant |-> w, shift |-> 0],
                       value |-> Amplify(audio_state.sink[1].source.amplify, w)])
    /\ UNCHANGED <<generator, pink_vars>>

\* PinkNoise::next; the row and the white sample draw the same value here (SpecPink
\* follows every pair of draws).
SamplePink ==
    /\ Pull("PinkNoise")
    /\ \E d \in Draws : pink_next(d, d)
    /\ out' = Some([raw |-> sample', value |-> sample'])
    /\ UNCHANGED generator

\* BrownNoise::next: the body is empty; no field changes and no sample is made.
brown_next(g) == [g |-> g, item |-> None]

SampleBrown ==
    /\ Pull("BrownNoise")
    /\ generator' = Some(brown_next(generator[1]).g)
    /\ out' = brown_next(generator[1]).item
    /\ UNCHANGED pink_vars

\* One call of an AudioState method, with its history record.
Call(op, arg, res, s2) ==
    /\ audio_state' = s2
    /\ mixer' = MixerAfter(mixer, audio_state.sink, s2.sink)
    /\ last' = [op |-> op, arg |-> arg, result |-> res, pre |-> audio_state]
    /\ SourceAfter(audio_state.sink, s2.sink)

\* What play()'s initialize_audio met: a stream already held, or the open's outcome.
OpenOutcome(s, open_ok) ==
    IF s.stream # None THEN "held" ELSE IF open_ok THEN "opened" ELSE "open_failed"

CallPlay(open_ok) ==
    LET r == play(audio_state, open_ok, mixer)
    IN /\ Call("play", OpenOutcome(audio_state, open_ok), IF r.ok THEN "Ok" ELSE "Err", r.s)
       /\ opens' = r.opens

CallStop == Call("stop", None, "Ok", stop(audio_state)) /\ opens' = 0

CallSetVolume(v) ==
    Call("set_volume", v, "Ok", set_volume(audio_state, v)) /\ opens' = 0

CallSetSoundType(t) ==
    Call("set_sound_type", t, "Ok", set_sound_type(audio_state, t)) /\ opens' = 0

(***************************************************************************)
(* The tray menu and the main loop.                                        *)
(***************************************************************************)
SoundItems == {"sine_item", "white_noise_item", "pink_noise_item", "brown_noise_item"}
VolumeItems == {"vol_low_item", "vol_medium_item", "vol_high_item", "vol_max_item"}
CheckItems == SoundItems \cup VolumeItems
MenuItems == CheckItems \cup {"play_item", "stop_item", "quit_item"}

\* The sound type a sound item selects, the volume a volume item selects.
SoundOf(item) ==
    CASE item = "sine_item" -> "SineWave"
      [] item = "white_noise_item" -> "WhiteNoise"
      [] item = "pink_noise_item" -> "PinkNoise"
      [] item = "brown_noise_item" -> "BrownNoise"

VolumeOf(item) ==
    CASE item = "vol_low_item" -> 25
      [] item = "vol_medium_item" -> 50
      [] item = "vol_high_item" -> 75
      [] item = "vol_max_item" -> 100

\* The menu as main() builds it.
InitEnabled == [i \in MenuItems |-> i # "stop_item"]
InitChecked == [i \in CheckItems |-> i \in {"sine_item", "vol_medium_item"}]

\* set_checked on the four items of a group: only the clicked one is checked.
CheckAlso(chk, group, item) ==
    [i \in CheckItems |-> IF i = item THEN TRUE ELSE chk[i]]
CheckOnly(chk, group, item) ==
    [i \in CheckItems |-> IF i \in group THEN i = item ELSE chk[i]]

\* The enablement the play_item handler leaves: untouched on Err, else Play and the
\* selection items disabled and Stop enabled.
PlayingEnabled(en) ==
    [i \in MenuItems |->
        IF i = "play_item" \/ i \in CheckItems THEN FALSE
        ELSE IF i = "stop_item" THEN TRUE ELSE en[i]]
PlayEnabledIgnoringResult(ok, en) == PlayingEnabled(en)
PlayEnabled(ok, en) == IF ok THEN PlayingEnabled(en) ELSE en

\* The enablement the stop_item handler leaves.
StopLeavesVolumeDisabled(en) ==
    [i \in MenuItems |->
        IF i = "play_item" \/ i \in SoundItems THEN TRUE
        ELSE IF i = "stop_item" THEN FALSE ELSE en[i]]
StopEnabled(en) ==
    [i \in MenuItems |->
        IF i = "play_item" \/ i \in CheckItems THEN TRUE
        ELSE IF i = "stop_item" THEN FALSE ELSE en[i]]

\* The user clicks an item the menu shows enabled; the click is queued.
Click(item) ==
    /\ running
    /\ enabled[item]
    /\ Len(menu_channel) < MaxQueue
    /\ menu_channel' = Append(menu_channel, item)
    /\ UNCHANGED <<audio_vars, enabled, checked, icon, running, pink_vars, stream_vars, loop_vars>>

\* try_recv() yields the event of `item`.
Received(item) ==
    /\ running
    /\ menu_channel # <<>>
    /\ Head(menu_channel) = item
    /\ menu_channel' = Tail(menu_channel)

\* The branches of the loop's if-chain, from the lock() to the end of the branch.
SoundBranch(item) ==
    /\ CallSetSoundType(SoundOf(item))
    /\ checked' = CheckOnly(checked, SoundItems, item)
    /\ UNCHANGED <<enabled, icon, running>>

VolumeBranch(item) ==
    /\ CallSetVolume(VolumeOf(item))
    /\ checked' = CheckOnly(checked, VolumeItems, item)
    /\ UNCHANGED <<enabled, icon, running>>

PlayBranch(open_ok) ==
    /\ CallPlay(open_ok)
    /\ enabled' = PlayEnabled(last'.result = "Ok", enabled)
    /\ icon' = IF last'.result = "Ok" THEN "playing" ELSE icon
    /\ UNCHANGED <<checked, running>>

StopBranch ==
    /\ CallStop
    /\ enabled' = StopEnabled(enabled)
    /\ icon' = "stopped"
    /\ UNCHANGED <<checked, running>>

\* One iteration of the loop as one step: the event is received, the mutex is
\* locked, the branch runs and the guard is dropped at the end of the branch.
HandleSound(item) ==
    /\ Received(item)
    /\ SoundBranch(item)
    /\ UNCHANGED loop_vars

HandleVolume(item) ==
    /\ Received(item)
    /\ VolumeBranch(item)
    /\ UNCHANGED loop_vars

HandlePlay(open_ok) ==
    /\ Received("play_item")
    /\ PlayBranch(open_ok)
    /\ UNCHANGED loop_vars

HandleStop ==
    /\ Received("stop_item")
    /\ StopBranch
    /\ UNCHANGED loop_vars

HandleQuit ==
    /\ Received("quit_item")
    /\ running' = FALSE
    /\ UNCHANGED <<audio_vars, enabled, checked, icon, pink_vars, stream_vars, loop_vars>>

\* One iteration of the loop step by step.  try_recv() yields the event of `item`
\* and the if-chain selects its branch: the quit branch breaks, the others lock.
Take(item) ==
    /\ Received(item)
    /\ event = None
    /\ event' = Some([id |-> item, pc |-> IF item = "quit_item" THEN "break" ELSE "lock"])
    /\ UNCHANGED <<audio_vars, enabled, checked, icon, running, pink_vars, stream_vars, guard>>

\* `audio_state.lock().unwrap()`: returns once the mutex is free.
Lock ==
    /\ event # None
    /\ event[1].pc = "lock"
    /\ guard = None
    /\ guard' = Some("main")
    /\ event' = Some([event[1] EXCEPT !.pc = "locked"])
    /\ UNCHANGED <<audio_vars, ui_vars, pink_vars, stream_vars>>

\* The loop is in the branch of `item` with `state`, the MutexGuard, in scope.
Holding(item) ==
    /\ event # None
    /\ event[1].pc = "locked"
    /\ event[1].id = item
    /\ guard = Some("main")

\* The statements of the branch are done; its scope is about to end.
Branched ==
    /\ event' = Some([event[1] EXCEPT !.pc = "drop"])
    /\ UNCHANGED <<menu_channel, guard>>

LockedSound(item) == Holding(item) /\ SoundBranch(item) /\ Branched
LockedVolume(item) == Holding(item) /\ VolumeBranch(item) /\ Branched
LockedPlay(open_ok) == Holding("play_item") /\ PlayBranch(open_ok) /\ Branched
LockedStop == Holding("stop_item") /\ StopBranch /\ Branched

\* The end of the branch drops `state`: the mutex is unlocked.
KeepGuard(g) == g
DropGuard(g) == None

Unlock ==
    /\ event # None
    /\ event[1].pc = "drop"
    /\ guard' = DropGuard(guard)
    /\ event' = None
    /\ UNCHANGED <<audio_vars, ui_vars, pink_vars, stream_vars>>

\* A click while no other click waits in the channel.
ClickNext(item) == menu_channel = <<>> /\ Click(item)

\* `break` in the quit branch.
Break ==
    /\ event # None
    /\ event[1].pc = "break"
    /\ running' = FALSE
    /\ event' = None
    /\ UNCHANGED <<audio_vars, menu_channel, enabled, checked, icon, pink_vars,
                   stream_vars, guard>>

(***************************************************************************)
(* Specifications.                                                         *)
(***************************************************************************)
SessionNew ==
    /\ audio_state = AudioState_new
    /\ mixer = {}
    /\ last = [op |-> "new", arg |-> None, result |-> "Ok", pre |-> AudioState_new]
    /\ opens = 0
    /\ generator = None
    /\ out = None
    /\ produced = 0
    /\ previous = 0
    /\ guard = None
    /\ event = None
    /\ menu_channel = <<>>
    /\ enabled = InitEnabled
    /\ checked = InitChecked
    /\ icon = "stopped"
    /\ running = TRUE

SessionInit == SessionNew /\ NoGenerator

\* The application: clicks queue up, the main loop handles one event per iteration.
Next ==
    \/ \E item \in MenuItems : Click(item)
    \/ \E item \in SoundItems : HandleSound(item)
    \/ \E item \in VolumeItems : HandleVolume(item)
    \/ \E open_ok \in BOOLEAN : HandlePlay(open_ok)
    \/ HandleStop
    \/ HandleQuit

Spec == SessionInit /\ [][Next]_vars

\* The AudioState methods called in any order with any argument.
ApiPlay(open_ok) == CallPlay(open_ok) /\ UNCHANGED <<ui_vars, loop_vars>>
ApiStop == CallStop /\ UNCHANGED <<ui_vars, loop_vars>>
ApiSetVolume(v) == CallSetVolume(v) /\ UNCHANGED <<ui_vars, loop_vars>>
ApiSetSoundType(t) == CallSetSoundType(t) /\ UNCHANGED <<ui_vars, loop_vars>>

ApiNext ==
    \/ \E open_ok \in BOOLEAN : ApiPlay(open_ok)
    \/ ApiStop
    \/ \E v \in VolumeInputs : ApiSetVolume(v)
    \/ \E t \in SoundTypes : ApiSetSoundType(t)

SpecApi == SessionInit /\ [][ApiNext]_vars

\* The session with its audio thread: the AudioState methods called in any order
\* while the output stream takes samples from the source of the sink.
StreamNext ==
    \/ \E open_ok \in BOOLEAN : ApiPlay(open_ok)
    \/ ApiStop
    \/ \E v \in MenuVolumes : ApiSetVolume(v)
    \/ \E t \in SoundTypes : ApiSetSoundType(t)
    \/ SampleSine
    \/ SampleWhite
    \/ SamplePink
    \/ SampleBrown

SpecStream == SessionInit /\ [][StreamNext]_vars

\* The application with its two threads: the main loop taking the steps of one
\* iteration, and the output stream taking samples from the source of the sink.
LockNext ==
    \/ \E item \in MenuItems : ClickNext(item)
    \/ \E item \in MenuItems : Take(item)
    \/ Lock
    \/ \E item \in SoundItems : LockedSound(item)
    \/ \E item \in VolumeItems : LockedVolume(item)
    \/ \E open_ok \in BOOLEAN : LockedPlay(open_ok)
    \/ LockedStop
    \/ Unlock
    \/ Break
    \/ SampleSine
    \/ SampleWhite
    \/ SamplePink
    \/ SampleBrown

SpecLock == SessionInit /\ [][LockNext]_vars

\* The generator alone: PinkNoise::new, then calls of next with any draws.
PinkInit == SessionNew /\ Unsampled /\ \E d \in NewDraws : PinkNew(d)

Tick ==
    /\ ticks < MaxTicks
    /\ \E d \in Draws, w \in Draws : pink_next(d, w)
    /\ UNCHANGED <<audio_vars, ui_vars, stream_vars, loop_vars>>

SpecPink == PinkInit /\ [][Tick]_vars

\* The long run of a fresh generator: the schedule does not read the draws, so one
\* draw value is followed.
RunInit == SessionNew /\ Unsampled /\ PinkNew([i \in Rows |-> One])

RunTick ==
    /\ ticks < RunTicks
    /\ pink_next(One, One)
    /\ UNCHANGED <<audio_vars, ui_vars, stream_vars, loop_vars>>

SpecRun == RunInit /\ [][RunTick]_vars

\* A generator that has run up to WrapLead ticks before its counter reaches 2^16 or
\* wraps at 2^32.
WrapInit ==
    /\ SessionNew
    /\ Unsampled
    /\ \E d \in NewDraws : rows = d /\ running_sum = SumF32(d, PINK_NOISE_ROWS)
    /\ \E h \in {0, Half - 1} : counter = [hi |-> h, lo |-> Half - WrapLead]

WrapTick ==
    /\ ticks < 2 * WrapLead
    /\ \E d \in Draws, w \in Draws : pink_next(d, w)
    /\ UNCHANGED <<audio_vars, ui_vars, stream_vars, loop_vars>>

SpecWrap == WrapInit /\ [][WrapTick]_vars

(***************************************************************************)
(* Claims about the playback session.                                      *)
(***************************************************************************)

\* C3: play invoked while Playing returns Ok and changes no field of AudioState
\* (sink, is_playing, sound_type, volume, stream); after any sequence of calls at
\* most one sink is connected to the mixer, and it is the one AudioState holds.
C3_PlayIdempotent ==
    /\ (last.op = "play" /\ last.pre.is_playing) =>
            (last.result = "Ok" /\ audio_state = last.pre)
    /\ Cardinality(mixer) <= 1
    /\ mixer = {audio_state.sink[i].id : i \in DOMAIN audio_state.sink}

C3_PlayedWhilePlaying == last.op = "play" /\ last.pre.is_playing

\* C4: no step changes sound_type or volume in a state where is_playing is true.
C4_SelectionOnlyWhileStopped ==
    [][audio_state.is_playing =>
          /\ audio_state'.sound_type = audio_state.sound_type
          /\ audio_state'.volume = audio_state.volume]_vars

\* C5: when opening the output stream fails, play returns Err, no sink is created,
\* is_playing stays false, no field of AudioState changes, and the menu stays in its
\* Stopped configuration (Play enabled, Stop disabled, selection items enabled).
C5_DeviceFailureLeavesStopped ==
    (last.op = "play" /\ last.arg = "open_failed") =>
        /\ last.result = "Err"
        /\ audio_state.sink = None
        /\ mixer = {}
        /\ ~audio_state.is_playing
        /\ audio_state = last.pre
        /\ enabled["play_item"]
        /\ ~enabled["stop_item"]
        /\ \A i \in CheckItems : enabled[i]

C5_OpenFailed == last.op = "play" /\ last.arg = "open_failed" /\ last.result = "Err"

\* C6: after stop the session is Stopped (is_playing false, no sink, nothing in the
\* mixer) with sound_type, volume and the stream as before; a stop of a Stopped
\* session changes no field.
C6_StopOnlyStops ==
    last.op = "stop" =>
        /\ ~audio_state.is_playing
        /\ audio_state.sink = None
        /\ mixer = {}
        /\ audio_state.sound_type = last.pre.sound_type
        /\ audio_state.volume = last.pre.volume
        /\ audio_state.stream = last.pre.stream
        /\ (~last.pre.is_playing => audio_state = last.pre)

C6_StoppedWhilePlaying == last.op = "stop" /\ last.pre.is_playing

\* f32::max and f32::min: a NaN operand is ignored.
F32Max(a, b) == IF a = NaN THEN b ELSE IF b = NaN THEN a ELSE IF a < b THEN b ELSE a
F32Min(a, b) == IF a = NaN THEN b ELSE IF b = NaN THEN a ELSE IF a < b THEN a ELSE b

\* C7: set_volume(v) stores min(max(v, 0.0), 1.0) for every input v, and the volume
\* stored lies in [0.0, 1.0] in every reachable state.
C7_VolumeClamped ==
    /\ last.op = "set_volume" =>
            audio_state.volume = F32Min(F32Max(last.arg, 0), 100)
    /\ audio_state.volume # NaN
    /\ 0 <= audio_state.volume /\ audio_state.volume <= 100

\* C8: whenever a sink exists its gain is the current AudioState.volume, whether the
\* volume was last set before play or while Playing.
C8_SinkGainIsVolume ==
    audio_state.sink # None => audio_state.sink[1].volume = audio_state.volume

C8_VolumeChangedWhilePlaying ==
    /\ audio_state.sink # None
    /\ last.op = "set_volume"
    /\ last.pre.sink # None
    /\ last.pre.volume # audio_state.volume

(***************************************************************************)
(* Claims about PinkNoise.                                                 *)
(***************************************************************************)

\* C1: after new and after any number of calls of next, running_sum equals the sum
\* of the 16 values in rows: the f32 sum an independent resummation computes, or
\* the exact sum.
C1_RunningSumIsRowSum ==
    \/ running_sum = SumF32(rows, PINK_NOISE_ROWS)
    \/ running_sum = SumExact(rows, PINK_NOISE_ROWS)

\* C2 as stated: row k is redrawn once every 2^k ticks of a fresh generator, so
\* 65,536 ticks redraw row 0 65,536 times and row 4 4,096 times.
C2_RowEveryTwoPowK ==
    /\ \A k \in Rows : updates[k] = ticks \div 2^k
    /\ ticks = 65536 => (updates[0] = 65536 /\ updates[4] = 4096)

\* C2 as amended: row k of a fresh generator is redrawn exactly on the ticks
\* congruent to 2^k modulo 2^(k+1), once every 2^(k+1) ticks, so 65,536 ticks
\* redraw row 0 32,768 times, row 4 2,048 times and row 15 once.
C2_RowEveryTwoPowKPlusOne ==
    /\ \A k \in Rows : updates[k] = (ticks + 2^k) \div 2^(k + 1)
    /\ idx # None => ticks % 2^(idx[1] + 1) = 2^idx[1]
    /\ (idx = None /\ ticks > 0) => ticks % 2^PINK_NOISE_ROWS = 0
    /\ ticks = 65536 => (updates[0] = 32768 /\ updates[4] = 2048 /\ updates[15] = 1)

C2_LongRunDone == ticks = 65536 /\ updates[0] = 32768 /\ updates[4] = 2048

\* C9: every sample PinkNoise::next returns lies in [-1.0, 1.0].
C9_SampleInUnitRange == InUnitRange(sample)

\* C10: the counter is incremented modulo 2^32; no tick uses a row index of 16 or
\* more; a tick whose trailing-zero count is 16 or more redraws no row, leaves
\* running_sum as it was and still returns a sample.
C10_WrapIsSafe ==
    [][ticks' # ticks =>
          /\ ticks' = ticks + 1
          /\ ~panicked'
          /\ idx' # None => idx'[1] \in Rows
          /\ (counter.hi = Half - 1 /\ counter.lo = Half - 1) =>
                 counter' = [hi |-> 0, lo |-> 0]
          /\ trailing_zeros(counter') >= PINK_NOISE_ROWS =>
                 /\ idx' = None
                 /\ rows' = rows
                 /\ running_sum' = running_sum
                 /\ updates' = updates
                 /\ \E w \in Draws : sample' = F32Div17(F32Round(running_sum + w))]_vars

C10_WrappedToZero ==
    /\ counter = [hi |-> 0, lo |-> 0]
    /\ ticks > 0
    /\ idx = None
    /\ ~panicked

\* C13: a call of next first increments the counter by one; the row redrawn is the
\* one whose index is the number of trailing zero bits of the incremented counter
\* (the k with 2^k dividing it and 2^(k+1) not), no row when that number is 16 or
\* more, and every other row keeps its value.
C13_OneRowPerTick ==
    [][ticks' # ticks =>
          LET n == counter'.lo
              z == CHOOSE k \in 0..PINK_NOISE_ROWS : n % 2^k = 0 /\ n % 2^(k + 1) # 0
          IN /\ counter'.hi = counter.hi
             /\ n = counter.lo + 1
             /\ n < Half
             /\ idx' = IF z \in Rows THEN Some(z) ELSE None
             /\ \A k \in Rows : k # z => rows'[k] = rows[k]
             /\ \A k \in Rows : updates'[k] = updates[k] + (IF k = z THEN 1 ELSE 0)
             /\ Cardinality({k \in Rows : rows'[k] # rows[k]}) <= 1]_vars

C13_RowTwoRedrawn ==
    /\ ticks = 4
    /\ counter = [hi |-> 0, lo |-> 4]
    /\ idx = Some(2)
    /\ updates[2] = 1
    /\ rows[2] = One
    /\ rows[0] = 7

(***************************************************************************)
(* Claims about the stream of a session.                                   *)
(***************************************************************************)

\* C11: every step from Stopped to Playing leaves a new generator of the selected
\* variant in its initial state (a SineWave at sample 0; a PinkNoise with counter 0,
\* rows just drawn and running_sum their sum; no call of next made, no sample out),
\* whatever the stream before it produced; a stop leaves no generator, and there is
\* no generator while Stopped.
C11_FreshStreamOnStart ==
    /\ [](~audio_state.is_playing => (generator = None /\ out = None))
    /\ [][(~audio_state.is_playing /\ audio_state'.is_playing) =>
              /\ generator' = Some([kind |-> audio_state.sound_type, num_sample |-> 0,
                                     integrator |-> 0, output |-> 0])
              /\ counter' = [hi |-> 0, lo |-> 0]
              /\ ticks' = 0
              /\ produced' = 0
              /\ out' = None
              /\ audio_state.sound_type = "PinkNoise" =>
                     /\ \A k \in Rows : rows'[k] \in Draws
                     /\ running_sum' = SumF32(rows', PINK_NOISE_ROWS)]_vars
    /\ [][(audio_state.is_playing /\ ~audio_state'.is_playing) =>
              generator' = None]_vars

C11_RestartedAfterSamples ==
    /\ audio_state.is_playing
    /\ previous = MaxSamples
    /\ produced = 0
    /\ last.op = "play"
    /\ generator # None
    /\ generator[1].num_sample = 0

\* C12: every call of BrownNoise::next returns a sample, the sample lies in
\* [-1.0, 1.0], and the accumulator it integrates stays in [-1.0, 1.0].
C12_BrownBoundedWalk ==
    [][(generator # None /\ generator[1].kind = "BrownNoise" /\ produced' = produced + 1) =>
          /\ out' # None
          /\ InUnitRange(out'[1].value)
          /\ -One <= generator'[1].integrator /\ generator'[1].integrator <= One
          /\ -One <= generator'[1].output /\ generator'[1].output <= One]_vars


\* C14: the step from Stopped to Playing appends the generator of the variant that
\* sound_type named before the step, behind a sink whose gain is the volume before
\* the step; while the sink lives, no step (set_sound_type, set_volume, play, a
\* sample) changes the variant of its generator or of its source.
C14_VariantFixedPerStream ==
    /\ [](audio_state.sink # None =>
              /\ generator # None
              /\ generator[1].kind = audio_state.sink[1].source.kind)
    /\ [][(~audio_state.is_playing /\ audio_state'.is_playing) =>
              /\ generator'[1].kind = audio_state.sound_type
              /\ audio_state'.sink[1].source.kind = audio_state.sound_type
              /\ audio_state'.sink[1].volume = audio_state.volume]_vars
    /\ [][(audio_state.sink # None /\ audio_state'.sink # None) =>
              /\ audio_state'.sink[1].id = audio_state.sink[1].id
              /\ audio_state'.sink[1].source = audio_state.sink[1].source
              /\ generator'[1].kind = generator[1].kind]_vars

C14_SelectionChangedMidStream ==
    /\ audio_state.is_playing
    /\ last.op = "set_sound_type"
    /\ last.pre.is_playing
    /\ produced > 0
    /\ generator[1].kind = "PinkNoise"
    /\ audio_state.sound_type = "SineWave"
    /\ audio_state.sink[1].source.kind = "PinkNoise"

\* C15: a call of play opens the output stream at most once, and does so exactly
\* when no stream is held; no other call opens it, so a failed open is followed by
\* no attempt before the next play; a stream once held is kept as it is, and no
\* later call opens one again.
C15_OpenOnlyOnPlayOnceUntilHeld ==
    /\ [](opens \in {0, 1})
    /\ []((last.op = "play") => (opens = 1 <=> last.pre.stream = None))
    /\ []((last.op = "play" /\ last.result = "Err") =>
              (opens = 1 /\ audio_state.stream = None))
    /\ []((last.op # "play") => opens = 0)
    /\ [][audio_state.stream # None =>
              (audio_state'.stream = audio_state.stream /\ opens' = 0)]_vars

C15_PlayedOnHeldStream ==
    /\ last.op = "play"
    /\ last.pre.stream # None
    /\ ~last.pre.is_playing
    /\ audio_state.is_playing
    /\ opens = 0

\* C16: the source of a sink is amplified by the base gain 0.3 exactly when it is
\* white noise; a white-noise sample handed to the sink is a draw in [-1.0, 1.0]
\* times 0.3 in f32, once (1.0 gives 0.3_f32, 7 * 2^-24 gives 8808039 * 2^-46), of
\* magnitude at most 0.3_f32; a pink-noise sample is handed on as it is.
C16_WhiteBaseGainOnce ==
    /\ audio_state.sink # None =>
          (audio_state.sink[1].source.amplify =
              IF audio_state.sink[1].source.kind = "WhiteNoise" THEN 30 ELSE 100)
    /\ (generator # None /\ out # None /\ generator[1].kind = "WhiteNoise") =>
          LET w == out[1].raw.mant
              v == out[1].value
          IN /\ -One <= w /\ w <= One
             /\ v.shift >= 2 \/ (v.shift = 1 /\ Abs(v.mant) <= 10066330)
             /\ w = One => v = [mant |-> 10066330, shift |-> 1]
             /\ w = -One => v = [mant |-> -10066330, shift |-> 1]
             /\ w = 7 => v = [mant |-> 8808039, shift |-> 22]
    /\ (generator # None /\ out # None /\ generator[1].kind = "PinkNoise") =>
          out[1].value = out[1].raw

C16_WhiteSampleAfterRestart ==
    /\ generator # None
    /\ generator[1].kind = "WhiteNoise"
    /\ previous > 0
    /\ produced = MaxSamples
    /\ out # None
    /\ out[1].raw.mant = -One

(***************************************************************************)
(* Claims about the main loop.                                             *)
(***************************************************************************)

\* C17: every call on the AudioState is made with the mutex held by the main loop;
\* the mutex is held only inside the branch of one event and is free whenever the
\* loop receives an event or is about to lock, so lock() never waits; a sample step
\* of the audio thread never changes the holder, and while the mutex is held the
\* source of a connected sink can still be asked for its next sample.
C17_LockDiscipline ==
    /\ [][(audio_state' # audio_state \/ last' # last \/ opens' # opens) =>
              (guard = Some("main") /\ guard' = Some("main"))]_vars
    /\ [][Len(menu_channel') < Len(menu_channel) => (guard = None /\ guard' = None)]_vars
    /\ [][guard' # guard =>
              (event # None /\ produced' = produced /\ generator' = generator)]_vars
    /\ []((event # None /\ event[1].pc = "lock") => guard = None)
    /\ [](guard # None => (event # None /\ event[1].pc \in {"locked", "drop"}))
    /\ [](event = None => guard = None)
    /\ []((guard # None /\ audio_state.is_playing /\ produced < MaxSamples) =>
              \E kind \in SoundTypes : CanPull(kind))
    /\ [][produced' = produced + 1 => (guard' = guard /\ event' = event)]_vars

C17_SampledUnderLock ==
    /\ guard = Some("main")
    /\ event # None
    /\ event[1].id = "play_item"
    /\ event[1].pc = "drop"
    /\ last.op = "play"
    /\ ~last.pre.is_playing
    /\ produced = MaxSamples
    /\ menu_channel # <<>>

\* C18: after any sequence of play (opening or failing to open), stop, set_volume
\* and set_sound_type, is_playing is true exactly when sink is Some, a Playing
\* session holds the output stream, and a play on a Playing session returned Ok.
C18_PlayingIffSink ==
    /\ audio_state.is_playing <=> audio_state.sink # None
    /\ audio_state.is_playing => audio_state.stream # None
    /\ (last.op = "play" /\ last.pre.is_playing) => last.result = "Ok"
    /\ (last.op = "play" /\ last.result = "Err") => ~audio_state.is_playing

C18_PlayingThroughSelection ==
    /\ audio_state.is_playing
    /\ audio_state.sink # None
    /\ audio_state.stream # None
    /\ last.op = "set_sound_type"
    /\ last.pre.is_playing
    /\ last.pre.sound_type # audio_state.sound_type

\* C19: after the main loop has handled any event, in any order of queued events,
\* Play is enabled exactly when is_playing is false, Stop exactly when it is true,
\* and every sound and volume item exactly when it is false.
C19_EnablementMirrorsState ==
    /\ enabled["play_item"] <=> ~audio_state.is_playing
    /\ enabled["stop_item"] <=> audio_state.is_playing
    /\ \A i \in CheckItems : enabled[i] <=> ~audio_state.is_playing

C19_RepeatedPlayHandled ==
    /\ last.op = "play"
    /\ last.pre.is_playing
    /\ audio_state.is_playing
    /\ ~enabled["play_item"]
    /\ enabled["stop_item"]
    /\ menu_channel = <<"stop_item">>

\* C20: initially and after the main loop has handled any event, the one sound item
\* checked is the item of AudioState.sound_type and the one volume item checked is
\* the item of AudioState.volume.
C20_CheckmarksMirrorSelection ==
    /\ \A i \in SoundItems : checked[i] <=> (audio_state.sound_type = SoundOf(i))
    /\ \A i \in VolumeItems : checked[i] <=> (audio_state.volume = VolumeOf(i))
    /\ Cardinality({i \in SoundItems : checked[i]}) = 1
    /\ Cardinality({i \in VolumeItems : checked[i]}) = 1

C20_BothSelectionsChanged ==
    /\ checked["brown_noise_item"]
    /\ checked["vol_max_item"]
    /\ ~checked["sine_item"]
    /\ ~checked["vol_medium_item"]
    /\ audio_state.sound_type = "BrownNoise"
    /\ audio_state.volume = 100

====
